---- MODULE Spec2Model ----
(***************************************************************************)
(* A model of the QWeb CompilationContext (src/qweb/compilation_context.ts) *)
(*                                                                         *)
(* A context is a JavaScript object.  subContext derives a context with    *)
(* Object.create(this): the derived object owns exactly the property that  *)
(* was assigned on it and reads every other property through its           *)
(* prototype.  A context is modelled as a record                           *)
(*     [proto |-> index of the prototype (0 for a constructed context),    *)
(*      via   |-> the operation that created the object,                   *)
(*      key   |-> the property it was derived with ("" when constructed),  *)
(*      own   |-> the object's own properties, a function name -> value]   *)
(* and ctxs is the heap of all context objects created so far.             *)
(*                                                                         *)
(* An emitted line is [indent |-> number of 4-space units in front of it,  *)
(* text |-> the sequence of string pieces whose concatenation is the text].*)
(***************************************************************************)
EXTENDS Integers, Sequences, FiniteSets, TLC

VARIABLES
    nextID,     \* static CompilationContext.nextID
    ctxs,       \* the context objects, in order of creation
    ret,        \* the last call: the operation and what it returned or threw
    allocated   \* the ids returned by generateID so far, in call order

vars == <<nextID, ctxs, ret, allocated>>

----------------------------------------------------------------------------
(* Bounds of the exploration *)

MaxCtx == 3      \* context objects created
MaxID == 2       \* ids allocated
MaxCode == 7     \* lines emitted on one chain before final assembly
MaxLoop == 2     \* loop nesting
MaxIndent == 1   \* the walker does not call indent() itself at this level
MaxDedent == 1   \* dedent() is not called at this level below 0
MaxLen == 6      \* length of the strings interpolated exhaustively
MaxLines == 4    \* lines on one chain while the walker emits line by line

\* node ids passed by the caller: the falsy id and two others
Nodes == {0, 1, 2}
Prefixes == {"", "x"}

----------------------------------------------------------------------------
(* Values *)

\* null of a `number | null' property; node ids and scope ids are naturals
Null == -1

\* JavaScript truthiness of a `number | null' value: null and 0 are falsy
Truthy(v) == v # Null /\ v # 0

\* decimal rendering of a number inside a template literal
Str(n) == ToString(n)

\* the template-literal delimiter (U+0060), which a TLA+ string cannot hold
BackTick == "<backtick>"

Line(units, pieces) == [indent |-> units, text |-> pieces]

----------------------------------------------------------------------------
(* Property lookup and assignment *)

Ctx == 1 .. Len(ctxs)

RECURSIVE GetIn(_, _, _)
\* obj.f in heap h: the own property, else the prototype's
GetIn(h, c, f) ==
    IF f \in DOMAIN h[c].own THEN h[c].own[f] ELSE GetIn(h, h[c].proto, f)

Get(c, f) == GetIn(ctxs, c, f)

\* obj.f = v: creates or overwrites the own property of obj
SetIn(h, c, f, v) ==
    [h EXCEPT ![c].own = (f :> v) @@ h[c].own]

RECURSIVE OwnerIn(_, _, _)
\* the object of c's prototype chain that holds property f
OwnerIn(h, c, f) ==
    IF f \in DOMAIN h[c].own THEN c ELSE OwnerIn(h, h[c].proto, f)

RootOf(h, c) == GetIn(h, c, "rootContext")

Roots == {c \in Ctx : ctxs[c].proto = 0}

RECURSIVE ChainRootIn(_, _)
\* the constructed context at the top of c's prototype chain
ChainRootIn(h, c) == IF h[c].proto = 0 THEN c ELSE ChainRootIn(h, h[c].proto)

ChainRoot(c) == ChainRootIn(ctxs, c)

CodeOf(c) == Get(c, "code")

----------------------------------------------------------------------------
(* addLine *)

\* new Array(indentLevel + 2).join("    "): indentLevel + 1 units, none
\* when the array has fewer than two slots.  (A negative length, below level
\* -2, is a RangeError: the guards on dedent keep the level above it.)
PrefixUnits(level) == IF level + 2 < 2 THEN 0 ELSE level + 1

\* (a line stored in front of the others)
AddLineFrontIn(h, c, pieces) ==
    LET o == OwnerIn(h, c, "code")
    IN  [h EXCEPT ![o].own.code =
            <<Line(PrefixUnits(GetIn(h, c, "indentLevel")), pieces)>> \o @]

\* this.code.push(prefix + line) on the array that c reads as this.code
AddLineIn(h, c, pieces) ==
    LET o == OwnerIn(h, c, "code")
    IN  [h EXCEPT ![o].own.code =
            Append(@, Line(PrefixUnits(GetIn(h, c, "indentLevel")), pieces))]

----------------------------------------------------------------------------
(* constructor *)

FieldDefaults(self) ==
    [ code |-> <<>>,
      variables |-> <<>>,
      parentNode |-> Null,
      parentTextNode |-> Null,
      rootNode |-> Null,
      indentLevel |-> 0,
      rootContext |-> self,
      shouldDefineParent |-> FALSE,
      shouldDefineScope |-> FALSE,
      shouldDefineQWeb |-> FALSE,
      shouldDefineUtils |-> FALSE,
      shouldDefineRefs |-> FALSE,
      shouldDefineResult |-> TRUE,
      loopNumber |-> 0,
      allowMultipleRoots |-> FALSE,
      hasParentWidget |-> FALSE,
      hasKey0 |-> FALSE,
      subScopeID |-> Null ]

NewContextIn(h) ==
    LET self == Len(h) + 1
        h1 == Append(h, [proto |-> 0, via |-> "new", key |-> "", own |-> FieldDefaults(self)])
    IN  AddLineIn(h1, self, <<"let h = this.h;">>)

\* a call that returned v, and a call that threw the error e
Returned(o, v) == [op |-> o, threw |-> FALSE, val |-> v]
Threw(o, e) == [op |-> o, threw |-> TRUE, val |-> e]

Init ==
    /\ nextID = 1
    /\ ctxs = NewContextIn(<<>>)
    /\ ret = Returned("new", 1)
    /\ allocated = <<>>

\* new CompilationContext()
Construct ==
    /\ Len(ctxs) < MaxCtx
    /\ ctxs' = NewContextIn(ctxs)
    /\ ret' = Returned("new", Len(ctxs) + 1)
    /\ UNCHANGED <<nextID, allocated>>

----------------------------------------------------------------------------
(* subContext *)

\* (a derivation that copies the current value of every property)
DeriveSnapshotIn(h, c, key, value, how) ==
    Append(h, [proto |-> c, via |-> how, key |-> key,
               own |-> (key :> value) @@ [f \in DOMAIN h[ChainRootIn(h, c)].own |-> GetIn(h, c, f)]])

\* Object.create(this) with newContext[key] = value
DeriveIn(h, c, key, value, how) ==
    Append(h, [proto |-> c, via |-> how, key |-> key, own |-> (key :> value)])

\* the walker enters a loop, or sets an explicit key at level 0
LoopKeys == ({"loopNumber"} \X (1 .. MaxLoop)) \cup {<<"hasKey0", TRUE>>}

SubKeys == ({"parentNode"} \X Nodes) \cup LoopKeys

SubContext(c, key, value) ==
    /\ Len(ctxs) < MaxCtx
    /\ ctxs' = DeriveIn(ctxs, c, key, value, "subContext")
    /\ ret' = Returned("subContext", Len(ctxs) + 1)
    /\ UNCHANGED <<nextID, allocated>>

----------------------------------------------------------------------------
(* withParent *)

\* (a guard that forgets the root-level text node)
MultipleRootsNodeOnly(h, c) ==
    /\ ~GetIn(h, c, "allowMultipleRoots")
    /\ c = RootOf(h, c)
    /\ Truthy(GetIn(h, c, "parentNode"))

\* the guard of the throw statement
MultipleRoots(h, c) ==
    /\ ~GetIn(h, c, "allowMultipleRoots")
    /\ c = RootOf(h, c)
    /\ (Truthy(GetIn(h, c, "parentNode")) \/ Truthy(GetIn(h, c, "parentTextNode")))

\* if (!this.rootContext.rootNode) this.rootContext.rootNode = node
RecordRootNode(h, c, node) ==
    IF ~Truthy(GetIn(h, RootOf(h, c), "rootNode"))
    THEN SetIn(h, RootOf(h, c), "rootNode", node)
    ELSE h

\* if (!this.parentNode && this.rootContext.shouldDefineResult) addLine(...)
AssignResult(h, c, node) ==
    IF ~Truthy(GetIn(h, c, "parentNode")) /\ GetIn(h, RootOf(h, c), "shouldDefineResult")
    THEN AddLineIn(h, c, <<"result = vn", Str(node), ";">>)
    ELSE h

\* (a derivation that also records the node on the receiver)
WithParentRecordIn(h, c, node) ==
    DeriveIn(SetIn(AssignResult(RecordRootNode(h, c, node), c, node), c, "parentNode", node),
             c, "parentNode", node, "withParent")

WithParentIn(h, c, node) ==
    DeriveIn(AssignResult(RecordRootNode(h, c, node), c, node),
             c, "parentNode", node, "withParent")

WithParent(c, node) ==
    IF MultipleRoots(ctxs, c)
    THEN /\ ret' = Threw("withParent",
                         "A template should not have more than one root node")
         /\ UNCHANGED <<nextID, ctxs, allocated>>
    ELSE /\ Len(ctxs) < MaxCtx
         /\ Len(CodeOf(c)) < MaxCode
         /\ ctxs' = WithParentIn(ctxs, c, node)
         /\ ret' = Returned("withParent", Len(ctxs) + 1)
         /\ UNCHANGED <<nextID, allocated>>

\* the template walker records a root-level text node on the root context:
\* an assignment to the public property parentTextNode
SetParentTextNode(c, node) ==
    /\ c = RootOf(ctxs, c)
    /\ Get(c, "parentTextNode") = Null
    /\ ctxs' = SetIn(ctxs, c, "parentTextNode", node)
    /\ ret' = Returned("parentTextNode=", node)
    /\ UNCHANGED <<nextID, allocated>>

----------------------------------------------------------------------------
(* indent, dedent *)

\* (an increment of the receiver's own counter)
IndentOnSelfIn(h, c) == SetIn(h, c, "indentLevel", GetIn(h, c, "indentLevel") + 1)

\* this.rootContext.indentLevel++
IndentIn(h, c) ==
    SetIn(h, RootOf(h, c), "indentLevel", GetIn(h, RootOf(h, c), "indentLevel") + 1)

\* this.rootContext.indentLevel--
DedentIn(h, c) ==
    SetIn(h, RootOf(h, c), "indentLevel", GetIn(h, RootOf(h, c), "indentLevel") - 1)

Indent(c) ==
    /\ Get(RootOf(ctxs, c), "indentLevel") < MaxIndent
    /\ ctxs' = IndentIn(ctxs, c)
    /\ ret' = Returned("indent", <<>>)
    /\ UNCHANGED <<nextID, allocated>>

Dedent(c) ==
    /\ Get(RootOf(ctxs, c), "indentLevel") > -MaxDedent
    /\ ctxs' = DedentIn(ctxs, c)
    /\ ret' = Returned("dedent", <<>>)
    /\ UNCHANGED <<nextID, allocated>>

----------------------------------------------------------------------------
(* addLine, addIf, addElse, closeIf *)

\* the instructions and the conditions the walker emits
Texts == {"a();"}
Conds == {"c"}

\* return this.code.length - 1, after the push
IndexAfterPush(h, c) == Len(GetIn(h, c, "code")) - 1

AddLine(c, text) ==
    /\ Len(CodeOf(c)) < MaxCode
    /\ ctxs' = AddLineIn(ctxs, c, <<text>>)
    /\ ret' = Returned("addLine", IndexAfterPush(ctxs', c))
    /\ UNCHANGED <<nextID, allocated>>

AddIfIn(h, c, condition) ==
    IndentIn(AddLineIn(h, c, <<"if (", condition, ") {">>), c)

\* (an else emitted inside the branch it ends)
AddElseNoDedentIn(h, c) == AddLineIn(h, c, <<"} else {">>)

AddElseIn(h, c) ==
    IndentIn(AddLineIn(DedentIn(h, c), c, <<"} else {">>), c)

CloseIfIn(h, c) ==
    AddLineIn(DedentIn(h, c), c, <<"}">>)

AddIf(c, condition) ==
    /\ Len(CodeOf(c)) < MaxCode
    /\ ctxs' = AddIfIn(ctxs, c, condition)
    /\ ret' = Returned("addIf", <<>>)
    /\ UNCHANGED <<nextID, allocated>>

AddElse(c) ==
    /\ Len(CodeOf(c)) < MaxCode
    /\ Get(RootOf(ctxs, c), "indentLevel") > -MaxDedent
    /\ ctxs' = AddElseIn(ctxs, c)
    /\ ret' = Returned("addElse", <<>>)
    /\ UNCHANGED <<nextID, allocated>>

CloseIf(c) ==
    /\ Len(CodeOf(c)) < MaxCode
    /\ Get(RootOf(ctxs, c), "indentLevel") > -MaxDedent
    /\ ctxs' = CloseIfIn(ctxs, c)
    /\ ret' = Returned("closeIf", <<>>)
    /\ UNCHANGED <<nextID, allocated>>

----------------------------------------------------------------------------
(* generateID, generateTemplateKey *)

\* (a counter that is read but not advanced)
NoIncrement(n) == n

\* CompilationContext.nextID++ : the value the counter holds afterwards
PostIncrement(n) == n + 1

GenerateID(c) ==
    /\ nextID <= MaxID
    /\ nextID' = PostIncrement(nextID)
    /\ allocated' = Append(allocated, nextID)
    /\ ret' = Returned("generateID", nextID)
    /\ UNCHANGED ctxs

RECURSIVE KeyPieces(_, _)
\* for (let i = start; i < this.loopNumber + 1; i++) key += "${key<i>}__"
KeyPieces(i, loopNumber) ==
    IF i < loopNumber + 1
    THEN <<"${key", Str(i), "}__">> \o KeyPieces(i + 1, loopNumber)
    ELSE <<>>

\* (a start that ignores the explicit key of level 0)
KeyStartOne(h, c) == 1

\* let start = this.hasKey0 ? 0 : 1
KeyStart(h, c) == IF GetIn(h, c, "hasKey0") THEN 0 ELSE 1

\* (a generator that always binds a runtime key)
NeverStaticKey(h, c) == FALSE

\* this.loopNumber === 0 && !this.hasKey0
IsStaticKey(h, c) == GetIn(h, c, "loopNumber") = 0 /\ ~GetIn(h, c, "hasKey0")

GenerateTemplateKey(c, prefix) ==
    /\ nextID <= MaxID
    /\ nextID' = PostIncrement(nextID)
    /\ allocated' = Append(allocated, nextID)
    /\ IF IsStaticKey(ctxs, c)
       THEN /\ ret' = Returned("generateTemplateKey",
                               <<"'", prefix, "__", Str(nextID), "__'">>)
            /\ UNCHANGED ctxs
       ELSE /\ Len(CodeOf(c)) < MaxCode
            /\ ctxs' = AddLineIn(ctxs, c,
                           <<"let k", Str(nextID), " = ", BackTick, prefix, "__", Str(nextID), "__">>
                           \o KeyPieces(KeyStart(ctxs, c), Get(c, "loopNumber"))
                           \o <<BackTick, ";">>)
            /\ ret' = Returned("generateTemplateKey", <<"k", Str(nextID)>>)

----------------------------------------------------------------------------
(* generateCode *)

\* the properties the template walker assigns on the root context while it
\* compiles: the facilities the directives use, a template that needs no
\* result variable, a template rendered inside a parent component
WalkerFlags ==
    ({"shouldDefineParent", "shouldDefineScope", "shouldDefineQWeb",
      "shouldDefineUtils", "shouldDefineRefs", "hasParentWidget"} \X {TRUE})
    \cup {<<"shouldDefineResult", FALSE>>}

\* ctx.rootContext.<flag> = value
SetFlag(c, flag, value) ==
    /\ Get(RootOf(ctxs, c), flag) # value
    /\ ctxs' = SetIn(ctxs, RootOf(ctxs, c), flag, value)
    /\ ret' = Returned("flag=", flag)
    /\ UNCHANGED <<nextID, allocated>>

\* (a prologue line that is prepended whatever the flag)
UnshiftAlways(h, c, flag, pieces) ==
    [h EXCEPT ![OwnerIn(h, c, "code")].own.code = <<Line(1, pieces)>> \o @]

\* this.code.unshift(line) when the flag is set
UnshiftIf(h, c, flag, pieces) ==
    IF flag
    THEN [h EXCEPT ![OwnerIn(h, c, "code")].own.code = <<Line(1, pieces)>> \o @]
    ELSE h

\* (a parent declaration that ignores the parent component)
ParentDeclContext(h, c) == <<"let parent = context;">>

ParentDecl(h, c) ==
    IF GetIn(h, c, "hasParentWidget")
    THEN <<"let parent = extra.parent;">>
    ELSE <<"let parent = context;">>

GenerateCodeIn(h, c) ==
    LET h1 == UnshiftIf(h, c, GetIn(h, c, "shouldDefineResult"), <<"let result;">>)
        h2 == UnshiftIf(h1, c, GetIn(h, c, "shouldDefineScope"),
                        <<"let scope = Object.create(context);">>)
        h3 == UnshiftIf(h2, c, GetIn(h, c, "shouldDefineRefs"),
                        <<"context.__owl__.refs = context.__owl__.refs || {};">>)
        h4 == UnshiftIf(h3, c, GetIn(h, c, "shouldDefineParent"), ParentDecl(h, c))
        h5 == UnshiftIf(h4, c, GetIn(h, c, "shouldDefineQWeb"),
                        <<"let QWeb = this.constructor;">>)
    IN  UnshiftIf(h5, c, GetIn(h, c, "shouldDefineUtils"),
                  <<"let utils = this.constructor.utils;">>)

GenerateCode(c) ==
    /\ Len(CodeOf(c)) <= MaxCode
    /\ ctxs' = GenerateCodeIn(ctxs, c)
    /\ ret' = Returned("generateCode", GetIn(ctxs', c, "code"))
    /\ UNCHANGED <<nextID, allocated>>

----------------------------------------------------------------------------
(* startProtectScope, stopProtectScope, startBlockScope *)

StartProtectScope(c) ==
    /\ nextID <= MaxID
    /\ Len(CodeOf(c)) + 2 <= MaxCode
    /\ nextID' = PostIncrement(nextID)
    /\ allocated' = Append(allocated, nextID)
    /\ ctxs' = AddLineIn(
                 AddLineIn(SetIn(ctxs, RootOf(ctxs, c), "shouldDefineScope", TRUE),
                           c, <<"let _origScope", Str(nextID), " = scope;">>),
                 c, <<"scope = Object.assign(Object.create(context), scope);">>)
    /\ ret' = Returned("startProtectScope", nextID)

\* (a restore of the most recent protected scope, whatever the argument)
StopLatestScope(c, protectID) ==
    /\ Len(CodeOf(c)) < MaxCode
    /\ ctxs' = AddLineIn(ctxs, c, <<"scope = _origScope", Str(nextID - 1), ";">>)
    /\ ret' = Returned("stopProtectScope", <<>>)
    /\ UNCHANGED <<nextID, allocated>>

StopProtectScope(c, protectID) ==
    /\ Len(CodeOf(c)) < MaxCode
    /\ ctxs' = AddLineIn(ctxs, c, <<"scope = _origScope", Str(protectID), ";">>)
    /\ ret' = Returned("stopProtectScope", <<>>)
    /\ UNCHANGED <<nextID, allocated>>

StartBlockScope(c) ==
    /\ nextID <= MaxID
    /\ Len(ctxs) < MaxCtx
    /\ Len(CodeOf(c)) < MaxCode
    /\ nextID' = PostIncrement(nextID)
    /\ allocated' = Append(allocated, nextID)
    /\ ctxs' = AddLineIn(
                 DeriveIn(SetIn(ctxs, RootOf(ctxs, c), "shouldDefineScope", TRUE),
                          c, "subScopeID", nextID, "startBlockScope"),
                 Len(ctxs) + 1,
                 <<"const subScope_", Str(nextID),
                   " = Object.assign(Object.create(context), scope);">>)
    /\ ret' = Returned("startBlockScope", Len(ctxs) + 1)

----------------------------------------------------------------------------
(* getValue *)

\* template variables, a literal, and a name every object inherits from
\* Object.prototype
VarNames == {"x", "y", "z"}
Literals == {"1"}
InheritedNames == {"toString"}

\* the member an object inherits under such a name: not a string
Inherited(name) == "Object.prototype." \o name

\* val in this.variables: an own key of the object or an inherited name
In(val, vs) == val \in DOMAIN vs \/ val \in InheritedNames

\* this.variables[val]
Member(vs, val) == IF val \in DOMAIN vs THEN vs[val] ELSE Inherited(val)

\* (a resolution that stops after one lookup)
GetValueOneHopIn(vs, val, hops) ==
    IF In(val, vs)
    THEN [threw |-> FALSE, value |-> Member(vs, val), lookups |-> hops + 1]
    ELSE [threw |-> FALSE, value |-> val, lookups |-> hops]

RECURSIVE GetValueIn(_, _, _)
\* val in this.variables ? this.getValue(this.variables[val]) : val, after
\* hops lookups.  A chain that has made more lookups than there are keys
\* repeats a key: the recursion never returns and the call stack overflows.
GetValueIn(vs, val, hops) ==
    IF hops > Cardinality(DOMAIN vs \cup InheritedNames)
    THEN [threw |-> TRUE, value |-> val, lookups |-> hops]
    ELSE IF In(val, vs) THEN GetValueIn(vs, Member(vs, val), hops + 1)
    ELSE [threw |-> FALSE, value |-> val, lookups |-> hops]

GetValue(c, name) ==
    /\ ret' = LET r == GetValueIn(Get(c, "variables"), name, 0)
              IN  IF r.threw
                  THEN Threw("getValue",
                             [of |-> name,
                              error |-> "RangeError: Maximum call stack size exceeded"])
                  ELSE Returned("getValue",
                                [of |-> name, is |-> r.value, lookups |-> r.lookups])
    /\ UNCHANGED <<nextID, ctxs, allocated>>

\* the template walker binds a variable: ctx.variables[name] = value, on the
\* object that ctx reads as this.variables
SetVariable(c, name, value) ==
    /\ ctxs' = SetIn(ctxs, OwnerIn(ctxs, c, "variables"), "variables",
                     (name :> value) @@ Get(c, "variables"))
    /\ ret' = Returned("variables[]=", name)
    /\ UNCHANGED <<nextID, allocated>>

----------------------------------------------------------------------------
(* formatExpression, interpolate *)

\* a string is a sequence of characters
NL == "\n"
Chars == {"{", "}", "a", NL}

RECURSIVE StringsOfLen(_)
StringsOfLen(n) ==
    IF n = 0 THEN {<<>>}
    ELSE {Append(t, ch) : t \in StringsOfLen(n - 1), ch \in Chars}

\* {{e}} around every e of at most one character
Braced == {<<"{", "{">> \o e \o <<"}", "}">> : e \in StringsOfLen(0) \cup StringsOfLen(1)}

\* the strings interpolated: every string of at most MaxLen characters, and
\* every two braced expressions with at most one character between them
Strings ==
    UNION {StringsOfLen(n) : n \in 0 .. MaxLen}
    \cup {m1 \o t \o m2 : m1 \in Braced, m2 \in Braced,
                            t \in StringsOfLen(0) \cup StringsOfLen(1)}

\* the expressions passed to formatExpression
Exprs == {<<"a">>}

Text(str) == [kind |-> "text", s |-> str]

\* compileExpr(expr, variables, scopeName) of ./expression_parser: the
\* rewritten expression, kept as an uninterpreted term
CompileExpr(expr, scopeName) == [kind |-> "compiled", expr |-> expr, scope |-> scopeName]

\* (a scope name that ignores the sub-scope)
ScopeNameDefault(h, c) == <<"scope">>

\* this.subScopeID ? `subScope_${this.subScopeID}` : `scope`
ScopeName(h, c) ==
    IF Truthy(GetIn(h, c, "subScopeID"))
    THEN <<"subScope_", Str(GetIn(h, c, "subScopeID"))>>
    ELSE <<"scope">>

\* (a flag set on the receiver instead of the root)
FormatExpressionOnSelfIn(h, c) == SetIn(h, c, "shouldDefineScope", TRUE)

\* the state after formatExpression: this.rootContext.shouldDefineScope = true
FormatExpressionIn(h, c) == SetIn(h, RootOf(h, c), "shouldDefineScope", TRUE)

FormatExpression(c, expr) ==
    /\ ctxs' = FormatExpressionIn(ctxs, c)
    /\ ret' = Returned("formatExpression", CompileExpr(expr, ScopeName(ctxs, c)))
    /\ UNCHANGED <<nextID, allocated>>

IsOpen(s, i) == i + 1 <= Len(s) /\ s[i] = "{" /\ s[i + 1] = "{"
IsClose(s, i) == i + 1 <= Len(s) /\ s[i] = "}" /\ s[i + 1] = "}"

RECURSIVE LazyClose(_, _)
\* .*?\}\} tried from position k: the position of the first }} that is
\* reached without crossing a line terminator, 0 when there is none
LazyClose(s, k) ==
    IF k + 1 > Len(s) THEN 0
    ELSE IF IsClose(s, k) THEN k
    ELSE IF s[k] = NL THEN 0
    ELSE LazyClose(s, k + 1)

RECURSIVE Matches(_, _)
\* the matches of INTERP_REGEXP (global) from position p on, each
\* <<first index, index of its closing braces>>
Matches(s, p) ==
    IF p > Len(s) THEN <<>>
    ELSE IF IsOpen(s, p) /\ LazyClose(s, p + 2) # 0
         THEN <<<<p, LazyClose(s, p + 2)>>>> \o Matches(s, LazyClose(s, p + 2) + 2)
         ELSE Matches(s, p + 1)

\* m.slice(2, -2) of the match m
Inner(s, m) == SubSeq(s, m[1] + 2, m[2] - 1)

RECURSIVE Replaced(_, _, _, _)
\* s.replace(regexp, m => "${" + formatExpression(m.slice(2, -2)) + "}")
Replaced(s, p, ms, scopeName) ==
    IF p > Len(s) THEN <<>>
    ELSE IF ms # <<>> /\ ms[1][1] = p
         THEN <<Text("${"), CompileExpr(Inner(s, ms[1]), scopeName), Text("}")>>
              \o Replaced(s, ms[1][2] + 2, Tail(ms), scopeName)
         ELSE <<Text(s[p])>> \o Replaced(s, p + 1, ms, scopeName)

\* (a whole-string test that only counts the matches)
InterpolateValueOneMatch(h, c, s) ==
    LET matches == Matches(s, 1)
    IN  IF Len(matches) = 1
        THEN <<Text("("), CompileExpr(SubSeq(s, 3, Len(s) - 2), ScopeName(h, c)), Text(")")>>
        ELSE <<Text(BackTick)>> \o Replaced(s, 1, matches, ScopeName(h, c))
             \o <<Text(BackTick)>>

InterpolateValue(h, c, s) ==
    LET matches == Matches(s, 1)
    IN  IF matches # <<>> /\ (matches[1][2] + 2 - matches[1][1]) = Len(s)
        THEN <<Text("("), CompileExpr(SubSeq(s, 3, Len(s) - 2), ScopeName(h, c)), Text(")")>>
        ELSE <<Text(BackTick)>> \o Replaced(s, 1, matches, ScopeName(h, c))
             \o <<Text(BackTick)>>

Interpolate(c, s) ==
    /\ ctxs' = IF Matches(s, 1) # <<>> THEN FormatExpressionIn(ctxs, c) ELSE ctxs
    /\ ret' = Returned("interpolate", [of |-> s, is |-> InterpolateValue(ctxs, c, s)])
    /\ UNCHANGED <<nextID, allocated>>

----------------------------------------------------------------------------
(* Specifications *)

\* every operation, on every context
Next ==
    \/ Construct
    \/ \E c \in Ctx, kv \in SubKeys : SubContext(c, kv[1], kv[2])
    \/ \E c \in Ctx, n \in Nodes : WithParent(c, n)
    \/ \E c \in Ctx, n \in Nodes : SetParentTextNode(c, n)
    \/ \E c \in Ctx : Indent(c)
    \/ \E c \in Ctx : Dedent(c)
    \/ \E c \in Ctx : GenerateID(c)
    \/ \E c \in Ctx, p \in Prefixes : GenerateTemplateKey(c, p)
    \/ \E c \in Ctx : GenerateCode(c)
    \/ \E c \in Ctx : StartProtectScope(c)
    \/ \E c \in Ctx, id \in 1 .. (nextID - 1) : StopProtectScope(c, id)
    \/ \E c \in Ctx : StartBlockScope(c)
    \/ \E c \in Ctx, e \in Exprs : FormatExpression(c, e)
    \/ \E c \in Ctx, s \in Strings : Interpolate(c, s)

Spec == Init /\ [][Next]_vars

\* root nodes of one template: withParent on the contexts of one chain
NextRoots ==
    \/ \E c \in Ctx, kv \in SubKeys : SubContext(c, kv[1], kv[2])
    \/ \E c \in Ctx, n \in Nodes : WithParent(c, n)
    \/ \E c \in Ctx, n \in Nodes : SetParentTextNode(c, n)

SpecRoots == Init /\ [][NextRoots]_vars

\* context derivation and the state shared through the root
NextDerive ==
    \/ \E c \in Ctx, kv \in SubKeys : SubContext(c, kv[1], kv[2])
    \/ \E c \in Ctx, n \in Nodes : WithParent(c, n)
    \/ \E c \in Ctx : Indent(c)
    \/ \E c \in Ctx, e \in Exprs : FormatExpression(c, e)

SpecDerive == Init /\ [][NextDerive]_vars

\* template keys in and out of loops
NextTemplateKeys ==
    \/ \E c \in Ctx, kv \in LoopKeys : SubContext(c, kv[1], kv[2])
    \/ \E c \in Ctx, p \in Prefixes : GenerateTemplateKey(c, p)

SpecTemplateKeys == Init /\ [][NextTemplateKeys]_vars

\* id allocation by every allocating operation, across templates
NextKeys ==
    \/ Construct
    \/ \E c \in Ctx, kv \in LoopKeys : SubContext(c, kv[1], kv[2])
    \/ \E c \in Ctx : GenerateID(c)
    \/ \E c \in Ctx, p \in Prefixes : GenerateTemplateKey(c, p)
    \/ \E c \in Ctx : StartProtectScope(c)
    \/ \E c \in Ctx : StartBlockScope(c)

SpecKeys == Init /\ [][NextKeys]_vars

\* compiling a template and assembling its code
NextAssembly ==
    \/ \E c \in Ctx, n \in Nodes : WithParent(c, n)
    \/ \E c \in Ctx, p \in Prefixes : GenerateTemplateKey(c, p)
    \/ \E c \in Ctx, e \in Exprs : FormatExpression(c, e)
    \/ \E c \in Ctx : StartBlockScope(c)
    \/ \E c \in Ctx : GenerateCode(c)

SpecAssembly == Init /\ [][NextAssembly]_vars

\* protected scopes
NextScopes ==
    \/ \E c \in Ctx : StartProtectScope(c)
    \/ \E c \in Ctx, id \in 1 .. (nextID - 1) : StopProtectScope(c, id)
    \/ \E c \in Ctx : StartBlockScope(c)
    \/ \E c \in Ctx : Indent(c)

SpecScopes == Init /\ [][NextScopes]_vars

\* one interpolation of a string of at most MaxLen characters
NextInterp ==
    ret.op # "interpolate" /\ \E c \in Ctx, s \in Strings : Interpolate(c, s)

SpecInterp == Init /\ [][NextInterp]_vars

\* indentation: indent, dedent and addLine on the contexts of one chain
NextIndent ==
    \/ \E c \in Ctx : SubContext(c, "loopNumber", 1)
    \/ \E c \in Ctx : Indent(c)
    \/ \E c \in Ctx : Dedent(c)
    \/ \E c \in Ctx, t \in Texts : Len(CodeOf(c)) < MaxLines /\ AddLine(c, t)

SpecIndent == Init /\ [][NextIndent]_vars

\* the lines that open, split and close a conditional
IsIfLine(l) == l.text[1] = "if ("
IsElseLine(l) == l.text = <<"} else {">>
IsCloseLine(l) == l.text = <<"}">>

RECURSIVE OpenIfs(_, _)
\* the conditionals left open by the first k lines of code, innermost first:
\* the index of the opening line and whether its else was emitted
OpenIfs(code, k) ==
    IF k = 0 THEN <<>>
    ELSE LET open == OpenIfs(code, k - 1)
             l == code[k]
         IN  IF IsIfLine(l) THEN <<[line |-> k, else |-> FALSE]>> \o open
             ELSE IF IsElseLine(l) /\ open # <<>>
                  THEN <<[line |-> open[1].line, else |-> TRUE]>> \o Tail(open)
             ELSE IF IsCloseLine(l) /\ open # <<>> THEN Tail(open)
             ELSE open

OpenNow(c) == OpenIfs(CodeOf(c), Len(CodeOf(c)))

\* conditionals as a caller emits them: the level is chosen before the first
\* line, addElse is called at most once in an open conditional and closeIf
\* only in an open conditional
NextCond ==
    \/ \E c \in Ctx : SubContext(c, "loopNumber", 1)
    \/ \E c \in Ctx : Len(CodeOf(c)) = 1 /\ Indent(c)
    \/ \E c \in Ctx, t \in Texts : AddLine(c, t)
    \/ \E c \in Ctx, x \in Conds : AddIf(c, x)
    \/ \E c \in Ctx : OpenNow(c) # <<>> /\ ~OpenNow(c)[1].else /\ AddElse(c)
    \/ \E c \in Ctx : OpenNow(c) # <<>> /\ CloseIf(c)

SpecCond == Init /\ [][NextCond]_vars

\* every emitting operation, on the contexts of one chain, before assembly
NextEmit ==
    \/ \E c \in Roots : SubContext(c, "loopNumber", 1)
    \/ \E c \in Ctx, t \in Texts : Len(CodeOf(c)) < MaxLines /\ AddLine(c, t)
    \/ \E c \in Ctx, x \in Conds : Len(CodeOf(c)) < MaxLines /\ AddIf(c, x)
    \/ \E c \in Ctx : Len(CodeOf(c)) < MaxLines /\ AddElse(c)
    \/ \E c \in Ctx : Len(CodeOf(c)) < MaxLines /\ CloseIf(c)
    \/ \E c \in Ctx : Len(CodeOf(c)) < MaxLines /\ WithParent(c, 1)
    \/ \E c \in Ctx : Len(CodeOf(c)) < MaxLines /\ GenerateTemplateKey(c, "")
    \/ \E c \in Ctx : Len(CodeOf(c)) < MaxLines /\ StartProtectScope(c)
    \/ \E c \in Ctx, id \in 1 .. (nextID - 1) :
           Len(CodeOf(c)) < MaxLines /\ StopProtectScope(c, id)
    \/ \E c \in Ctx : Len(CodeOf(c)) < MaxLines /\ StartBlockScope(c)

SpecEmit == Init /\ [][NextEmit]_vars

\* final assembly: the walker sets flags and root nodes, then generateCode is
\* the last call on the template
NextPrologue ==
    \/ \E c \in Roots, fv \in WalkerFlags :
           ret.op # "generateCode" /\ SetFlag(c, fv[1], fv[2])
    \/ \E c \in Ctx : ret.op # "generateCode" /\ WithParent(c, 1)
    \/ \E c \in Ctx : ret.op # "generateCode" /\ GenerateCode(c)

SpecPrologue == Init /\ [][NextPrologue]_vars

\* strings interpolated while compiling: no marker, one marker, text and a
\* marker
InterpSamples ==
    {<<"a">>, <<"{", "{", "a", "}", "}">>, <<"a", "{", "{", "a", "}", "}">>}

\* the operations that need the scope variable and some that do not, on the
\* contexts of one chain, then generateCode as the last call
NextScopeFlag ==
    \/ \E c \in Ctx : ret.op # "generateCode" /\ SubContext(c, "loopNumber", 1)
    \/ \E c \in Ctx :
           ret.op # "generateCode" /\ Len(CodeOf(c)) < MaxLines /\ WithParent(c, 1)
    \/ \E c \in Ctx, t \in Texts :
           ret.op # "generateCode" /\ Len(CodeOf(c)) < MaxLines /\ AddLine(c, t)
    \/ \E c \in Ctx, e \in Exprs : ret.op # "generateCode" /\ FormatExpression(c, e)
    \/ \E c \in Ctx, s \in InterpSamples : ret.op # "generateCode" /\ Interpolate(c, s)
    \/ \E c \in Ctx :
           ret.op # "generateCode" /\ Len(CodeOf(c)) < MaxLines /\ StartProtectScope(c)
    \/ \E c \in Ctx :
           ret.op # "generateCode" /\ Len(CodeOf(c)) < MaxLines /\ StartBlockScope(c)
    \/ \E c \in Roots : ret.op # "generateCode" /\ GenerateCode(c)

SpecScopeFlag == Init /\ [][NextScopeFlag]_vars

\* block scopes: loop bodies entered from the contexts of one chain, and
\* expressions formatted inside and outside them
NextBlock ==
    \/ \E c \in Ctx, kv \in LoopKeys : SubContext(c, kv[1], kv[2])
    \/ \E c \in Ctx, n \in Nodes : WithParent(c, n)
    \/ \E c \in Ctx : StartBlockScope(c)
    \/ \E c \in Ctx, e \in Exprs : FormatExpression(c, e)

SpecBlock == Init /\ [][NextBlock]_vars

\* variables bound by the walker and resolved by getValue
NextVars ==
    \/ \E c \in Ctx : SubContext(c, "loopNumber", 1)
    \/ \E c \in Ctx, n \in VarNames, v \in VarNames \cup Literals : SetVariable(c, n, v)
    \/ \E c \in Ctx, n \in VarNames \cup Literals \cup InheritedNames : GetValue(c, n)

SpecVars == Init /\ [][NextVars]_vars

----------------------------------------------------------------------------
(* Root nodes *)

\* the contexts returned by a successful withParent call on context c
AcceptedOn(c) == {d \in Ctx : ctxs[d].proto = c /\ ctxs[d].via = "withParent"}

\* C1: unless allowMultipleRoots is set, at most one withParent call on the
\* root context succeeds: once the root context has accepted a root-level
\* node, every further withParent on it throws.
C1_AtMostOneRootAccepted ==
    \A r \in Roots :
        ~Get(r, "allowMultipleRoots") => Cardinality(AcceptedOn(r)) <= 1

\* a withParent call on a root context that does not allow multiple roots
RootLevelCall(c, node) ==
    /\ WithParent(c, node)
    /\ c \in Roots
    /\ ~Get(c, "allowMultipleRoots")

\* the root context holds a root-level parent: a node or a text node
HoldsRootParent(c) ==
    \/ Get(c, "parentNode") \notin {Null, 0}
    \/ Get(c, "parentTextNode") \notin {Null, 0}

C3_RootNodeWriteOnce ==
    [][\A r \in Roots :
          /\ Get(r, "rootNode") # Null =>
                 GetIn(ctxs', r, "rootNode") = Get(r, "rootNode")
          /\ \A c \in Ctx, n \in Nodes :
                 (WithParent(c, n) /\ ~ret'.threw /\ RootOf(ctxs, c) = r
                      /\ Get(r, "rootNode") = Null) =>
                     GetIn(ctxs', r, "rootNode") = n]_vars

----------------------------------------------------------------------------
(* Ids and template keys *)

\* C4: of any two id allocations of the process, whatever contexts and
\* templates they are made on, the later one returns the strictly greater id.
C4_IdsStrictlyIncreasing ==
    \A i, j \in 1 .. Len(allocated) :
        i < j => allocated[i] < allocated[j]

\* the lines of template r that declare a name made of an allocated id
DeclaresID(r) ==
    {i \in 1 .. Len(CodeOf(r)) :
        CodeOf(r)[i].text[1] \in {"let k", "let _origScope", "const subScope_"}}

\* ids were allocated for two templates, by different operations
C4_Witness ==
    /\ \E r1, r2 \in Roots :
          /\ r1 # r2
          /\ \E i \in DeclaresID(r1), j \in DeclaresID(r2) :
                 CodeOf(r1)[i].text[1] # CodeOf(r2)[j].text[1]

\* the id handed out by the step
FreshID == allocated'[Len(allocated')]

\* C5: with loopNumber = 0 and hasKey0 unset, generateTemplateKey(prefix)
\* returns the quoted literal '<prefix>__<id>__' of a fresh id and emits
\* nothing: no context changes (lines, indent level, rootNode, flags) and
\* the id counter advances by exactly one.
C5_StaticKeyIsLiteral ==
    [][\A c \in Ctx, p \in Prefixes :
          (GenerateTemplateKey(c, p) /\ Get(c, "loopNumber") = 0 /\ ~Get(c, "hasKey0")) =>
              /\ Len(allocated') = Len(allocated) + 1
              /\ FreshID \notin {allocated[i] : i \in 1 .. Len(allocated)}
              /\ ret' = Returned("generateTemplateKey",
                                 <<"'", p, "__", Str(FreshID), "__'">>)
              /\ ctxs' = ctxs
              /\ nextID' = nextID + 1]_vars

C5_Witness ==
    /\ ret.op = "generateTemplateKey"
    /\ ret.val[1] = "'"
    /\ Len(allocated) >= 2

\* the iteration-index variables key<s> .. key<l>, in increasing order
EmbeddedKeys(s, l) ==
    [k \in 1 .. 3 * (l + 1 - s) |->
        CASE k % 3 = 1 -> "${key"
          [] k % 3 = 2 -> Str(s + ((k - 1) \div 3))
          [] OTHER -> "}__"]

\* C6: with loopNumber > 0 or hasKey0 set, generateTemplateKey(prefix) appends
\* exactly one line, binding k<id> to the template string
\* <prefix>__<id>__${key<s>}__...${key<L>}__ where L is loopNumber and s is 0
\* if hasKey0 is set and 1 otherwise, and returns the name k<id>.
C6_LoopKeyIsBound ==
    [][\A c \in Ctx, p \in Prefixes :
          (GenerateTemplateKey(c, p) /\ (Get(c, "loopNumber") > 0 \/ Get(c, "hasKey0"))) =>
              LET r == ChainRoot(c)
                  s == IF Get(c, "hasKey0") THEN 0 ELSE 1
                  id == Str(FreshID)
              IN  /\ ret' = Returned("generateTemplateKey", <<"k", id>>)
                  /\ Len(GetIn(ctxs', r, "code")) = Len(CodeOf(r)) + 1
                  /\ SubSeq(GetIn(ctxs', r, "code"), 1, Len(CodeOf(r))) = CodeOf(r)
                  /\ GetIn(ctxs', r, "code")[Len(CodeOf(r)) + 1].text =
                         <<"let k", id, " = ", BackTick, p, "__", id, "__">>
                         \o EmbeddedKeys(s, Get(c, "loopNumber"))
                         \o <<BackTick, ";">>
                  /\ [ctxs' EXCEPT ![r].own.code = CodeOf(r)] = ctxs]_vars

\* a key bound at loop level 2 under an explicit key at level 0
C6_Witness ==
    /\ ret.op = "generateTemplateKey"
    /\ ret.val[1] = "k"
    /\ \E r \in Roots : \E i \in 1 .. Len(CodeOf(r)) :
          SubSeq(CodeOf(r)[i].text, 9, Len(CodeOf(r)[i].text)) =
              <<"${key", "0", "}__", "${key", "1", "}__", "${key", "2", "}__",
                BackTick, ";">>

----------------------------------------------------------------------------
(* Derived contexts *)

Fields == DOMAIN FieldDefaults(1)

\* in heap h every derived context reads every attribute but the one it was
\* derived with as its originating context reads it
ReadsLiveIn(h) ==
    \A d \in 1 .. Len(h) :
        h[d].proto # 0 =>
            \A f \in Fields \ {h[d].key} : GetIn(h, d, f) = GetIn(h, h[d].proto, f)

\* C7: subContext(key, value) returns a new context that reads key as value
\* and leaves the originating context's value of key unchanged; at every later
\* read every other attribute of a derived context is the originating
\* context's current value.
C7_SubContextReadsLive ==
    [][/\ \A c \in Ctx, kv \in SubKeys :
              SubContext(c, kv[1], kv[2]) =>
                  /\ ret'.val = Len(ctxs) + 1
                  /\ GetIn(ctxs', Len(ctxs) + 1, kv[1]) = kv[2]
                  /\ GetIn(ctxs', c, kv[1]) = Get(c, kv[1])
       /\ ReadsLiveIn(ctxs')]_vars

\* context 2 was derived with parentNode from the context as constructed; the
\* root's indent level, rootNode, scope flag and lines have changed since
C7_Witness ==
    /\ Len(ctxs) >= 2
    /\ ctxs[2].via = "subContext"
    /\ ctxs[2].key = "parentNode"
    /\ Get(2, "parentNode") = 2
    /\ Get(1, "parentNode") = Null
    /\ Get(2, "indentLevel") = 1
    /\ Get(2, "rootNode") = 1
    /\ Get(2, "shouldDefineScope")
    /\ Len(Get(2, "code")) = 2

----------------------------------------------------------------------------
(* Compiling a minimal template *)

\* C8: construct a root context, call withParent(n) once on it, then
\* generateCode: the returned sequence ends with 'result = vn<n>;' and its
\* prologue, the lines in front of those emitted before, is the declaration
\* of the result variable alone.
C8_MinimalTemplate ==
    [][\A n \in Nodes :
          (ctxs = WithParentIn(NewContextIn(<<>>), 1, n) /\ GenerateCode(1)) =>
              /\ ret'.op = "generateCode"
              /\ ret'.val = <<Line(1, <<"let result;">>)>> \o CodeOf(1)
              /\ ret'.val[Len(ret'.val)] = Line(1, <<"result = vn", Str(n), ";">>)
              /\ GetIn(ctxs', 1, "code") = ret'.val]_vars

C8_Witness ==
    /\ ret.op = "generateCode"
    /\ Len(ctxs) = 2
    /\ ctxs[2].via = "withParent"
    /\ ret.val = <<Line(1, <<"let result;">>), Line(1, <<"let h = this.h;">>),
                   Line(1, <<"result = vn", "2", ";">>)>>

----------------------------------------------------------------------------
(* Protected scopes: running the emitted scope instructions *)

SaveLine(id) == <<"let _origScope", Str(id), " = scope;">>
ReplaceLine == <<"scope = Object.assign(Object.create(context), scope);">>
RestoreLine(id) == <<"scope = _origScope", Str(id), ";">>

IsSave(l) == l.text[1] = "let _origScope"
IsRestore(l) == l.text[1] = "scope = _origScope"

RECURSIVE Run(_, _)
\* the scope variable, the saved temporaries and the absence of an error
\* after the first k lines of code have run; object 0 is the scope on entry
\* and object i the one created by line i
Run(code, k) ==
    IF k = 0 THEN [scope |-> 0, saved |-> <<>>, ok |-> TRUE]
    ELSE LET before == Run(code, k - 1)
             l == code[k]
         IN  IF IsSave(l)
             THEN [before EXCEPT !.saved = (l.text[2] :> before.scope) @@ @,
                                 !.ok = @ /\ l.text[2] \notin DOMAIN before.saved]
             ELSE IF l.text = ReplaceLine
             THEN [before EXCEPT !.scope = k]
             ELSE IF IsRestore(l)
             THEN IF l.text[2] \in DOMAIN before.saved
                  THEN [before EXCEPT !.scope = before.saved[l.text[2]]]
                  ELSE [before EXCEPT !.ok = FALSE]
             ELSE before

RECURSIVE Nested(_, _, _, _)
\* lines i .. j of code are start/stop pairs, each stop matching the
\* innermost open start; open is the stack of the ids of the open starts
Nested(code, i, j, open) ==
    IF i > j THEN open = <<>>
    ELSE IF IsSave(code[i])
         THEN Nested(code, i + 1, j, <<code[i].text[2]>> \o open)
    ELSE IF IsRestore(code[i])
         THEN /\ open # <<>>
              /\ open[1] = code[i].text[2]
              /\ Nested(code, i + 1, j, Tail(open))
    ELSE Nested(code, i + 1, j, open)

\* every properly nested pair of heap h restores the scope live before it,
\* and raises no error if none was raised before it
RestoresIn(h) ==
    \A r \in 1 .. Len(h) :
        h[r].proto = 0 =>
            LET code == GetIn(h, r, "code")
            IN  \A i, j \in 1 .. Len(code) :
                    (/\ i < j
                     /\ IsSave(code[i])
                     /\ code[j].text = <<"scope = _origScope", code[i].text[2], ";">>
                     /\ Nested(code, i + 1, j - 1, <<>>)) =>
                        /\ Run(code, i - 1).ok => Run(code, j).ok
                        /\ Run(code, j).scope = Run(code, i - 1).scope

\* the lines appended to the chain of c by the step
Appended(c) ==
    SubSeq(GetIn(ctxs', ChainRoot(c), "code"), Len(CodeOf(c)) + 1,
           Len(GetIn(ctxs', ChainRoot(c), "code")))

\* C9: startProtectScope appends the save instruction of a fresh id and the
\* scope-replacing instruction and returns the id; stopProtectScope(id)
\* appends the restore instruction of id; running the emitted lines, every
\* properly nested start/stop pair leaves the scope variable bound to the
\* object it was bound to before the pair.
C9_ProtectScopeRestores ==
    [][/\ \A c \in Ctx :
              StartProtectScope(c) =>
                  /\ ret'.val = FreshID
                  /\ [l \in DOMAIN Appended(c) |-> Appended(c)[l].text] =
                         <<SaveLine(FreshID), ReplaceLine>>
       /\ \A c \in Ctx, id \in 1 .. MaxID :
              StopProtectScope(c, id) =>
                  [l \in DOMAIN Appended(c) |-> Appended(c)[l].text] = <<RestoreLine(id)>>
       /\ RestoresIn(ctxs')]_vars

\* two nested pairs: the inner stop has restored the object created by the
\* outer start, the outer stop the scope on entry
C9_Witness ==
    /\ Len(CodeOf(1)) = 7
    /\ [l \in 1 .. 6 |-> CodeOf(1)[l + 1].text] =
           <<SaveLine(1), ReplaceLine, SaveLine(2), ReplaceLine,
             RestoreLine(2), RestoreLine(1)>>
    /\ Run(CodeOf(1), 5).scope = 5
    /\ Run(CodeOf(1), 6).scope = 3
    /\ Run(CodeOf(1), 7).scope = 0

----------------------------------------------------------------------------
(* Interpolation *)

\* s[i .. j + 1] is {{e}} where e has no line terminator and no }} ends
\* before j + 1: what INTERP_REGEXP matches when it is tried at i
IsMarker(s, i, j) ==
    /\ i >= 1 /\ j >= i + 2 /\ j + 1 <= Len(s)
    /\ s[i] = "{" /\ s[i + 1] = "{"
    /\ s[j] = "}" /\ s[j + 1] = "}"
    /\ \A k \in (i + 2) .. (j - 1) : s[k] # NL /\ ~(s[k] = "}" /\ s[k + 1] = "}")

Candidates(s) == {m \in (1 .. Len(s)) \X (1 .. Len(s)) : IsMarker(s, m[1], m[2])}

\* the markers of s: scanning left to right, a candidate is a marker unless it
\* starts inside an earlier marker
Markers(s) ==
    CHOOSE M \in SUBSET Candidates(s) :
        \A m \in Candidates(s) :
            m \in M <=> ~\E e \in M : e[1] < m[1] /\ m[1] <= e[2] + 1

\* the markers from left to right
RECURSIVE InOrder(_)
InOrder(M) ==
    IF M = {} THEN <<>>
    ELSE LET first == CHOOSE m \in M : \A e \in M : m[1] <= e[1]
         IN  <<first>> \o InOrder(M \ {first})

\* the expressions embedded in a result, from left to right
RECURSIVE Embedded(_)
Embedded(out) ==
    IF out = <<>> THEN <<>>
    ELSE IF Head(out).kind = "compiled"
         THEN <<Head(out).expr>> \o Embedded(Tail(out))
         ELSE Embedded(Tail(out))

RECURSIVE Source(_)
\* the string of which a composite body is the interpolation: every
\* ${<formatted e>} read back as {{e}}, every other piece as itself
Source(body) ==
    IF body = <<>> THEN <<>>
    ELSE IF Head(body) = Text("${") /\ Len(body) >= 3 /\ body[2].kind = "compiled"
              /\ body[3] = Text("}")
         THEN <<"{", "{">> \o body[2].expr \o <<"}", "}">> \o Source(SubSeq(body, 4, Len(body)))
    ELSE IF Head(body).kind = "text"
         THEN <<Head(body).s>> \o Source(Tail(body))
    ELSE <<"?">>

\* C10: interpolate(s) is '(<formatted e>)' exactly when the whole of s is one
\* marker {{e}}; otherwise it is s between backticks with each marker {{e}}
\* replaced, left to right, by ${<formatted e>} and the text outside markers
\* unchanged; the embedded expressions are as many as the markers, and with no
\* marker the expression formatter is not called.
C10_Interpolate ==
    ret.op = "interpolate" =>
        LET s == ret.val.of
            out == ret.val.is
            ms == InOrder(Markers(s))
        IN  /\ IF IsMarker(s, 1, Len(s) - 1)
               THEN out = <<Text("("), CompileExpr(SubSeq(s, 3, Len(s) - 2), <<"scope">>),
                            Text(")")>>
               ELSE /\ Head(out) = Text(BackTick)
                    /\ out[Len(out)] = Text(BackTick)
                    /\ Source(SubSeq(out, 2, Len(out) - 1)) = s
            /\ Embedded(out) = [k \in DOMAIN ms |-> SubSeq(s, ms[k][1] + 2, ms[k][2] - 1)]
            /\ \A k \in DOMAIN out :
                   out[k].kind = "compiled" => out[k].scope = <<"scope">>
            /\ Get(1, "shouldDefineScope") <=> (ms # <<>>)
            /\ ms = <<>> => out = <<Text(BackTick)>> \o [k \in DOMAIN s |-> Text(s[k])]
                                  \o <<Text(BackTick)>>

\* a composite template of two markers with text between them
C10_Witness ==
    /\ ret.op = "interpolate"
    /\ ret.val.of = <<"{", "{", "a", "}", "}", NL, "{", "{", "}", "}">>
    /\ ret.val.is = <<Text(BackTick),
                      Text("${"), CompileExpr(<<"a">>, <<"scope">>), Text("}"),
                      Text(NL),
                      Text("${"), CompileExpr(<<>>, <<"scope">>), Text("}"),
                      Text(BackTick)>>

----------------------------------------------------------------------------
(* Indentation *)

\* the 4-space units in front of a line emitted at a level: the base unit and
\* one unit per level above it
UnitsAt(level) == IF level >= 0 THEN 1 + level ELSE 0

\* the indent counter of the chain of c
ChainLevel(c) == Get(ChainRoot(c), "indentLevel")

\* C11: indent() and dedent() on any context of a chain change the indent
\* counter of the chain's root by +1 and -1 and nothing else; every context
\* of the chain reads that counter; and a line appended by addLine on any
\* context of the chain is prefixed with the units of that counter.
C11_IndentIsChainState ==
    [][/\ \A c \in Ctx :
              Indent(c) => ctxs' = SetIn(ctxs, ChainRoot(c), "indentLevel", ChainLevel(c) + 1)
       /\ \A c \in Ctx :
              Dedent(c) => ctxs' = SetIn(ctxs, ChainRoot(c), "indentLevel", ChainLevel(c) - 1)
       /\ \A c \in Ctx, t \in Texts :
              AddLine(c, t) =>
                  GetIn(ctxs', ChainRoot(c), "code") =
                      Append(CodeOf(ChainRoot(c)), Line(UnitsAt(ChainLevel(c)), <<t>>))
       /\ \A d \in 1 .. Len(ctxs') :
              GetIn(ctxs', d, "indentLevel") =
                  GetIn(ctxs', ChainRootIn(ctxs', d), "indentLevel")]_vars

\* a chain with two derived contexts whose lines were emitted at three levels
C11_Witness ==
    /\ Len(ctxs) = 3
    /\ ctxs[3].proto = 2
    /\ ret.op = "addLine"
    /\ [l \in DOMAIN CodeOf(3) |-> CodeOf(3)[l].indent] = <<1, 2, 0, 1>>

----------------------------------------------------------------------------
(* Conditionals *)

\* the indent level at which the first line after the constructor's was
\* emitted: the level at the start of the sequence
StartLevel(c) ==
    IF Len(CodeOf(c)) >= 2 THEN CodeOf(c)[2].indent - 1 ELSE ChainLevel(c)

\* C12: in a correctly nested sequence of addIf / addElse / closeIf calls
\* mixed with addLine, the indent level is never below its value at the
\* start and is that value again once every conditional is closed; the else
\* and closing lines of a conditional have the indentation of its opening
\* line, and a line emitted inside a branch is one level deeper than the
\* opening line of the innermost open conditional.
C12_ConditionalsIndent ==
    \A r \in Roots :
        LET code == CodeOf(r)
        IN  /\ ChainLevel(r) >= StartLevel(r)
            /\ OpenNow(r) = <<>> => ChainLevel(r) = StartLevel(r)
            /\ \A j \in 2 .. Len(code) :
                   LET open == OpenIfs(code, j - 1)
                   IN  IF open = <<>>
                       THEN code[j].indent = UnitsAt(StartLevel(r))
                       ELSE IF IsElseLine(code[j]) \/ IsCloseLine(code[j])
                       THEN code[j].indent = code[open[1].line].indent
                       ELSE code[j].indent = code[open[1].line].indent + 1

\* a conditional with an else branch nested in a branch of another one, both
\* closed, emitted from level 1
C12_Witness ==
    /\ ret.op = "closeIf"
    /\ Len(ctxs) >= 2
    /\ [l \in DOMAIN CodeOf(1) |-> CodeOf(1)[l].indent] = <<1, 2, 3, 4, 3, 3, 2>>
    /\ [l \in 2 .. 7 |-> CodeOf(1)[l].text[1]] =
           [l \in 2 .. 7 |->
               <<"if (", "if (", "a();", "} else {", "}", "}">>[l - 1]]
    /\ ChainLevel(1) = 1

----------------------------------------------------------------------------
(* The instruction sequence *)

\* C13: before generateCode, the instruction sequence is one sequence shared
\* by every context of the chain, and every operation only appends to it: the
\* lines already emitted keep their content and position; addLine returns
\* the index (from 0) at which it stored its line, so that index identifies
\* the line after any further operation.
C13_AppendOnly ==
    [][/\ \A r \in Roots :
              /\ Len(GetIn(ctxs', r, "code")) >= Len(CodeOf(r))
              /\ SubSeq(GetIn(ctxs', r, "code"), 1, Len(CodeOf(r))) = CodeOf(r)
       /\ \A d \in 1 .. Len(ctxs') :
              /\ "code" \in DOMAIN ctxs'[d].own <=> ctxs'[d].proto = 0
              /\ GetIn(ctxs', d, "code") = GetIn(ctxs', ChainRootIn(ctxs', d), "code")
       /\ \A c \in Ctx, t \in Texts :
              AddLine(c, t) =>
                  /\ ret'.val = Len(CodeOf(c))
                  /\ Len(GetIn(ctxs', c, "code")) = Len(CodeOf(c)) + 1
                  /\ GetIn(ctxs', c, "code")[ret'.val + 1].text = <<t>>]_vars

\* addLine returned index 3 on a chain whose lines 1 and 2 were emitted by
\* withParent and generateTemplateKey
C13_Witness ==
    /\ ret = Returned("addLine", 3)
    /\ Len(CodeOf(1)) = 4
    /\ CodeOf(1)[2].text[1] = "result = vn"
    /\ CodeOf(1)[3].text[1] = "let k"
    /\ CodeOf(1)[4].text = <<"a();">>

----------------------------------------------------------------------------
(* The prologue *)

Declare(flag, pieces) == IF flag THEN <<Line(1, pieces)>> ELSE <<>>

\* the declarations of the flags that context c reads as set, as they stand
\* in the assembled sequence: the flag handled last comes first
PrologueOf(c) ==
    Declare(Get(c, "shouldDefineUtils"), <<"let utils = this.constructor.utils;">>)
    \o Declare(Get(c, "shouldDefineQWeb"), <<"let QWeb = this.constructor;">>)
    \o Declare(Get(c, "shouldDefineParent"),
               IF Get(c, "hasParentWidget") THEN <<"let parent = extra.parent;">>
                                           ELSE <<"let parent = context;">>)
    \o Declare(Get(c, "shouldDefineRefs"),
               <<"context.__owl__.refs = context.__owl__.refs || {};">>)
    \o Declare(Get(c, "shouldDefineScope"), <<"let scope = Object.create(context);">>)
    \o Declare(Get(c, "shouldDefineResult"), <<"let result;">>)

\* C14: generateCode puts in front of the sequence one declaration per flag
\* that is set and none for the others, in the order result, scope, refs,
\* parent, QWeb, utils, each in front of the ones before it; the parent
\* declaration reads extra.parent when hasParentWidget is set and context
\* otherwise; the lines emitted before follow in their order; and the
\* sequence returned is the context's instruction sequence.
C14_PrologueByFlags ==
    [][\A c \in Ctx :
          GenerateCode(c) =>
              /\ GetIn(ctxs', c, "code") = PrologueOf(c) \o CodeOf(c)
              /\ ret' = Returned("generateCode", GetIn(ctxs', c, "code"))
              /\ [ctxs' EXCEPT ![ChainRoot(c)].own.code = CodeOf(c)] = ctxs]_vars

\* every declaration but the result variable's, with the parent component's
\* parent, in front of the constructor's line
C14_Witness ==
    /\ ret.op = "generateCode"
    /\ [l \in DOMAIN ret.val |-> ret.val[l].text[1]] =
           <<"let utils = this.constructor.utils;", "let QWeb = this.constructor;",
             "let parent = extra.parent;",
             "context.__owl__.refs = context.__owl__.refs || {};",
             "let scope = Object.create(context);", "let h = this.h;">>

\* the declarations generateCode can prepend
PrologueTexts ==
    {<<"let result;">>, <<"let scope = Object.create(context);">>,
     <<"context.__owl__.refs = context.__owl__.refs || {};">>,
     <<"let parent = extra.parent;">>, <<"let parent = context;">>,
     <<"let QWeb = this.constructor;">>, <<"let utils = this.constructor.utils;">>}

\* C15: the prologue is prepended to a chain's sequence at most once: in
\* every sequence of operations, also one that calls generateCode more than
\* once, each prologue declaration occurs at most once in the sequence.
C15_PrologueOnce ==
    \A r \in Roots :
        \A i, j \in 1 .. Len(CodeOf(r)) :
            (i < j /\ CodeOf(r)[i].text \in PrologueTexts) =>
                CodeOf(r)[j].text # CodeOf(r)[i].text

----------------------------------------------------------------------------
(* The scope flag *)

ScopeDecl == Line(1, <<"let scope = Object.create(context);">>)

\* the interpolated strings that hold at least one marker
MarkedSamples == {s \in InterpSamples : Markers(s) # {}}

\* an operation that needs the scope variable is called on context c
NeedsScope(c) ==
    \/ \E e \in Exprs : FormatExpression(c, e)
    \/ \E s \in MarkedSamples : Interpolate(c, s)
    \/ StartProtectScope(c)
    \/ StartBlockScope(c)

\* C16: formatExpression, interpolate with at least one marker,
\* startProtectScope and startBlockScope, called on any context of a chain,
\* set the root's shouldDefineScope; once set it stays set; no other
\* operation sets it; and generateCode on the root includes the scope
\* declaration exactly when the flag is set, so the declaration is absent if
\* none of the four was ever called.
C16_ScopeFlagIsRootState ==
    [][/\ \A c \in Ctx : NeedsScope(c) => GetIn(ctxs', ChainRoot(c), "shouldDefineScope")
       /\ \A r \in Roots :
              /\ Get(r, "shouldDefineScope") => GetIn(ctxs', r, "shouldDefineScope")
              /\ (~Get(r, "shouldDefineScope") /\ GetIn(ctxs', r, "shouldDefineScope")) =>
                     \E c \in Ctx : ChainRoot(c) = r /\ NeedsScope(c)
              /\ GenerateCode(r) =>
                     (Get(r, "shouldDefineScope") <=>
                         \E i \in DOMAIN ret'.val : ret'.val[i] = ScopeDecl)
       /\ \A d \in 1 .. Len(ctxs') :
              "shouldDefineScope" \in DOMAIN ctxs'[d].own <=> ctxs'[d].proto = 0]_vars

\* the assembled sequence declares the scope and holds no line of a scope
\* operation: the flag was set by formatExpression or interpolate, on a chain
\* with a derived context
C16_Witness ==
    /\ ret.op = "generateCode"
    /\ Len(ctxs) >= 2
    /\ [l \in DOMAIN ret.val |-> ret.val[l].text[1]] =
           <<"let scope = Object.create(context);", "let result;", "let h = this.h;",
             "a();">>

----------------------------------------------------------------------------
(* Block scopes *)

RECURSIVE InnermostBlock(_)
\* the nearest context, from c up its derivation chain, that startBlockScope
\* returned; 0 when there is none
InnermostBlock(c) ==
    IF c = 0 THEN 0
    ELSE IF ctxs[c].via = "startBlockScope" THEN c
    ELSE InnermostBlock(ctxs[c].proto)

\* the id allocated by the startBlockScope call that returned context d: the
\* calls allocate in the order in which their contexts were created
BlockID(d) ==
    allocated[Cardinality({x \in 1 .. d : ctxs[x].via = "startBlockScope"})]

\* the scope name of the innermost enclosing block scope of c
EnclosingScope(c) ==
    IF InnermostBlock(c) = 0 THEN <<"scope">>
    ELSE <<"subScope_", Str(BlockID(InnermostBlock(c)))>>

\* C17: startBlockScope allocates a fresh id N, returns a context derived
\* from the receiver whose subScopeID is N and appends exactly the one line
\* declaring subScope_N, the receiver keeping its subScopeID; formatExpression
\* hands the resolver subScope_N of the innermost enclosing startBlockScope
\* derivation of its context, and scope when there is none.
C17_BlockScopeNames ==
    [][/\ \A c \in Ctx :
              StartBlockScope(c) =>
                  /\ FreshID \notin {allocated[i] : i \in 1 .. Len(allocated)}
                  /\ ret' = Returned("startBlockScope", Len(ctxs) + 1)
                  /\ Len(ctxs') = Len(ctxs) + 1
                  /\ ctxs'[Len(ctxs) + 1].proto = c
                  /\ GetIn(ctxs', Len(ctxs) + 1, "subScopeID") = FreshID
                  /\ GetIn(ctxs', c, "subScopeID") = Get(c, "subScopeID")
                  /\ [l \in DOMAIN Appended(c) |-> Appended(c)[l].text] =
                         << <<"const subScope_", Str(FreshID),
                              " = Object.assign(Object.create(context), scope);">> >>
       /\ \A c \in Ctx, e \in Exprs :
              FormatExpression(c, e) =>
                  ret' = Returned("formatExpression", CompileExpr(e, EnclosingScope(c)))]_vars

\* an expression formatted in a block scope nested in another one, on a
\* context derived inside it
C17_Witness ==
    /\ ret = Returned("formatExpression", CompileExpr(<<"a">>, <<"subScope_", "2">>))
    /\ Len(ctxs) = 3
    /\ ctxs[2].via = "startBlockScope"
    /\ ctxs[3].via = "startBlockScope"
    /\ ctxs[3].proto = 2

----------------------------------------------------------------------------
(* The result assignment *)

\* C18: a successful withParent(node) appends 'result = vn<node>;' if and only
\* if the context it is called on has no parent node and the root's
\* shouldDefineResult is set; a receiver that has a parent node, whatever its
\* id, or a root that needs no result variable, gets no line.
C18_ResultAssignedIffNoParent ==
    [][\A c \in Ctx, n \in Nodes :
          (WithParent(c, n) /\ ~ret'.threw) =>
              [l \in DOMAIN Appended(c) |-> Appended(c)[l].text] =
                  IF Get(c, "parentNode") = Null
                         /\ Get(ChainRoot(c), "shouldDefineResult")
                  THEN << <<"result = vn", Str(n), ";">> >>
                  ELSE <<>>]_vars

----------------------------------------------------------------------------
(* Variable resolution *)

\* the keys of a mapping: what `in' reports
KeysOf(vs) == DOMAIN vs \cup InheritedNames

\* the value a key is mapped to
ValueOf(vs, k) == IF k \in DOMAIN vs THEN vs[k] ELSE Inherited(k)

RECURSIVE ReachFrom(_, _)
\* the values on the indirection chains that start in S
ReachFrom(vs, S) ==
    LET T == S \cup {ValueOf(vs, k) : k \in S \cap KeysOf(vs)}
    IN  IF T = S THEN S ELSE ReachFrom(vs, T)

\* the chain from name runs into a key it has already visited
Cyclic(vs, name) ==
    \E k \in ReachFrom(vs, {name}) \cap KeysOf(vs) : k \in ReachFrom(vs, {ValueOf(vs, k)})

----------------------------------------------------------------------------
(* The frame of withParent *)

\* C20: a successful withParent(node) returns a new context that reads
\* parentNode = node and changes no parent reference of an existing context:
\* the receiver and every other context read parentNode and parentTextNode as
\* before.  All it may change is rootNode of the receiver's root and the
\* chain's instruction sequence, by at most one appended line.
C20_WithParentFrame ==
    [][\A c \in Ctx, n \in Nodes :
          (WithParent(c, n) /\ ~ret'.threw) =>
              LET d == Len(ctxs) + 1
                  r == ChainRoot(c)
              IN  /\ ret' = Returned("withParent", d)
                  /\ Len(ctxs') = d
                  /\ ctxs'[d].proto = c
                  /\ GetIn(ctxs', d, "parentNode") = n
                  /\ \A x \in Ctx :
                         /\ ctxs'[x].proto = ctxs[x].proto
                         /\ DOMAIN ctxs'[x].own = DOMAIN ctxs[x].own
                         /\ \A f \in Fields \ {"rootNode", "code"} :
                                GetIn(ctxs', x, f) = Get(x, f)
                         /\ ChainRoot(x) # r =>
                                /\ GetIn(ctxs', x, "rootNode") = Get(x, "rootNode")
                                /\ GetIn(ctxs', x, "code") = CodeOf(x)
                  /\ Len(Appended(c)) <= 1
                  /\ SubSeq(GetIn(ctxs', r, "code"), 1, Len(CodeOf(r))) = CodeOf(r)
                  /\ nextID' = nextID
                  /\ allocated' = allocated]_vars

\* withParent(2) called on the context that withParent(1) returned: the
\* receiver still reads parent node 1, the new context reads 2
C20_Witness ==
    /\ ret = Returned("withParent", 3)
    /\ ctxs[2].via = "withParent"
    /\ ctxs[3].proto = 2
    /\ Get(1, "parentNode") = Null
    /\ Get(2, "parentNode") = 1
    /\ Get(3, "parentNode") = 2
    /\ Get(1, "rootNode") = 1

====
